---- MODULE Spec2Model ----
(***************************************************************************)
(* Credit-report scoring: helpers/report.py (score_credit_report,          *)
(* grade_report, check_prior_bankruptcy,                                   *)
(* get_negative_tradelines_for_redemption) and helpers/cleaner.py          *)
(* (parse_date, compute_months_diff).                                      *)
(*                                                                         *)
(* One run of score_credit_report is a state machine: the tradelines are   *)
(* yielded one at a time by the generator get_tradelines and evaluated,    *)
(* the raw score is aggregated, the redemption scenario is entered when    *)
(* 70% of the negative tradelines are older than two years, and the grade  *)
(* is mapped.  Every datetime.now() is a read of the wall clock, which may *)
(* advance between two reads.  A Python exception ends the run in          *)
(* pc = "raised".  The free-text reason trail (evaluation["reasons"]) is   *)
(* diagnostic output that no decision reads; it is not carried.            *)
(***************************************************************************)
EXTENDS FiniteSets, Integers, Sequences, TLC

(***************************************************************************)
(* Bounds                                                                  *)
(***************************************************************************)
\* longest document, in tradeline blocks
MaxTradelines == 2
\* how many times the wall clock may pass midnight during one run
MaxTicks == 1
\* longest text handed to the segmenter, in lines
MaxLines == 5

(***************************************************************************)
(* Python values                                                           *)
(***************************************************************************)
\* None in a string field
None == "<None>"
\* None in an integer field (months_reviewed, credit_limit: \d+ is never negative)
NoInt == -1
\* None in a date field; a date is <<year, month, day>>
NoDate == << >>

\* the characters of every string the model uses
Chars ==
     "bankruptcy" :> <<"b","a","n","k","r","u","p","t","c","y">>
  @@ "discharged through bankruptcy" :> <<"d","i","s","c","h","a","r","g","e","d"," ","t","h","r","o","u","g","h"," ","b","a","n","k","r","u","p","t","c","y">>
  @@ "included in bankruptcy" :> <<"i","n","c","l","u","d","e","d"," ","i","n"," ","b","a","n","k","r","u","p","t","c","y">>
  @@ "open" :> <<"o","p","e","n">>
  @@ "current" :> <<"c","u","r","r","e","n","t">>
  @@ "real estate" :> <<"r","e","a","l"," ","e","s","t","a","t","e">>
  @@ "mortgage" :> <<"m","o","r","t","g","a","g","e">>
  @@ "auto loan" :> <<"a","u","t","o"," ","l","o","a","n">>
  @@ "auto lease" :> <<"a","u","t","o"," ","l","e","a","s","e">>
  @@ "individual" :> <<"i","n","d","i","v","i","d","u","a","l">>
  @@ "unpaid balance reported as loss" :> <<"u","n","p","a","i","d"," ","b","a","l","a","n","c","e"," ","r","e","p","o","r","t","e","d"," ","a","s"," ","l","o","s","s">>
  @@ "seriously past due" :> <<"s","e","r","i","o","u","s","l","y"," ","p","a","s","t"," ","d","u","e">>
  @@ "paid/zero balance" :> <<"p","a","i","d","/","z","e","r","o"," ","b","a","l","a","n","c","e">>
  @@ "selfreported" :> <<"s","e","l","f","r","e","p","o","r","t","e","d">>
  @@ "fha real estate loan" :> <<"f","h","a"," ","r","e","a","l"," ","e","s","t","a","t","e"," ","l","o","a","n">>
  @@ "student loan" :> <<"s","t","u","d","e","n","t"," ","l","o","a","n">>
  @@ "education loan" :> <<"e","d","u","c","a","t","i","o","n"," ","l","o","a","n">>
  @@ "medical" :> <<"m","e","d","i","c","a","l">>
  @@ "Public Records: none" :> <<"P","u","b","l","i","c"," ","R","e","c","o","r","d","s",":"," ","n","o","n","e">>
  @@ "Public Records: Bankruptcy" :> <<"P","u","b","l","i","c"," ","R","e","c","o","r","d","s",":"," ","B","a","n","k","r","u","p","t","c","y">>
  @@ "bank credit cards" :> <<"b","a","n","k"," ","c","r","e","d","i","t"," ","c","a","r","d","s">>
  @@ "conventional real estate loan" :> <<"c","o","n","v","e","n","t","i","o","n","a","l"," ","r","e","a","l"," ","e","s","t","a","t","e"," ","l","o","a","n">>
  @@ "second mortgage" :> <<"s","e","c","o","n","d"," ","m","o","r","t","g","a","g","e">>
  @@ "student loans" :> <<"s","t","u","d","e","n","t"," ","l","o","a","n","s">>
  @@ "selfreported utility" :> <<"s","e","l","f","r","e","p","o","r","t","e","d"," ","u","t","i","l","i","t","y">>
  @@ "Open" :> <<"O","p","e","n">>
  @@ "Paid/zero balance" :> <<"P","a","i","d","/","z","e","r","o"," ","b","a","l","a","n","c","e">>
  @@ "Debt Included in Bankruptcy" :> <<"D","e","b","t"," ","I","n","c","l","u","d","e","d"," ","i","n"," ","B","a","n","k","r","u","p","t","c","y">>
  @@ "Open/Unpaid balance reported as loss" :> <<"O","p","e","n","/","U","n","p","a","i","d"," ","b","a","l","a","n","c","e"," ","r","e","p","o","r","t","e","d"," ","a","s"," ","l","o","s","s">>
  @@ "Unpaid balance reported as loss" :> <<"U","n","p","a","i","d"," ","b","a","l","a","n","c","e"," ","r","e","p","o","r","t","e","d"," ","a","s"," ","l","o","s","s">>
  @@ "Current" :> <<"C","u","r","r","e","n","t">>
  @@ "Current/was 60 days past due" :> <<"C","u","r","r","e","n","t","/","w","a","s"," ","6","0"," ","d","a","y","s"," ","p","a","s","t"," ","d","u","e">>
  @@ "Seriously past due" :> <<"S","e","r","i","o","u","s","l","y"," ","p","a","s","t"," ","d","u","e">>
  @@ "60 days past due" :> <<"6","0"," ","d","a","y","s"," ","p","a","s","t"," ","d","u","e">>
  @@ "Individual" :> <<"I","n","d","i","v","i","d","u","a","l">>
  @@ "Joint Account" :> <<"J","o","i","n","t"," ","A","c","c","o","u","n","t">>
  @@ "ACME / 1 / BC - Cards" :> <<"A","C","M","E"," ","/"," ","1"," ","/"," ","B","C"," ","-"," ","C","a","r","d","s">>
  @@ "* B / 2 / RE - Loan" :> <<"*"," ","B"," ","/"," ","2"," ","/"," ","R","E"," ","-"," ","L","o","a","n">>
  @@ " Open Date 08/2019 " :> <<" ","O","p","e","n"," ","D","a","t","e"," ","0","8","/","2","0","1","9"," ">>
  @@ "Open Date 08/2019" :> <<"O","p","e","n"," ","D","a","t","e"," ","0","8","/","2","0","1","9">>
  @@ "a/b - c" :> <<"a","/","b"," ","-"," ","c">>
  @@ "X / 3 / AU - " :> <<"X"," ","/"," ","3"," ","/"," ","A","U"," ","-"," ">>
  @@ "X / 3 / AU -" :> <<"X"," ","/"," ","3"," ","/"," ","A","U"," ","-">>
  @@ "Credit" :> <<"C","r","e","d","i","t">>
  @@ "Limit" :> <<"L","i","m","i","t">>
  @@ "$500.75" :> <<"$","5","0","0",".","7","5">>
  @@ "$1,250.00" :> <<"$","1",",","2","5","0",".","0","0">>
  @@ "$1,001" :> <<"$","1",",","0","0","1">>
  @@ "" :> << >>

UpperCase == <<"A","B","C","D","E","F","G","H","I","J","K","L","M","N","O","P","Q","R","S","T","U","V","W","X","Y","Z">>
LowerCase == <<"a","b","c","d","e","f","g","h","i","j","k","l","m","n","o","p","q","r","s","t","u","v","w","x","y","z">>

\* str.lower() on one character
LowerChar(c) ==
  IF \E i \in 1..Len(UpperCase) : UpperCase[i] = c
  THEN LowerCase[CHOOSE i \in 1..Len(UpperCase) : UpperCase[i] = c]
  ELSE c

\* str.lower()
Lower(s) == [i \in 1..Len(s) |-> LowerChar(s[i])]

\* sub in s  (also s.find(sub) >= 0)
Contains(sub, s) ==
  \E i \in 0..(Len(s) - Len(sub)) : SubSeq(s, i + 1, i + Len(sub)) = sub

\* s.startswith(prefix)
StartsWith(s, prefix) ==
  /\ Len(prefix) <= Len(s)
  /\ SubSeq(s, 1, Len(prefix)) = prefix

\* s.lower(), tabulated once over the strings of the model
LowerTable == [s \in DOMAIN Chars |-> Lower(Chars[s])]

\* the three tests the code applies to its strings, tabulated likewise
InTable ==
  [sub \in DOMAIN Chars |-> [s \in DOMAIN Chars |-> Contains(Chars[sub], Chars[s])]]
InLowerTable ==
  [sub \in DOMAIN Chars |-> [s \in DOMAIN Chars |-> Contains(Chars[sub], LowerTable[s])]]
LowerStartsWithTable ==
  [s \in DOMAIN Chars |-> [prefix \in DOMAIN Chars |-> StartsWith(LowerTable[s], Chars[prefix])]]

\* sub in s
In(sub, s) == InTable[sub][s]
\* sub in s.lower()
InLower(sub, s) == InLowerTable[sub][s]
\* s.lower().startswith(prefix)
LowerStartsWith(s, prefix) == LowerStartsWithTable[s][prefix]

(***************************************************************************)
(* Dates (datetime.date)                                                   *)
(***************************************************************************)
IsLeap(y) == (y % 4 = 0 /\ y % 100 # 0) \/ y % 400 = 0

DaysInMonth(y, m) ==
  IF m = 2 THEN (IF IsLeap(y) THEN 29 ELSE 28)
  ELSE IF m \in {4, 6, 9, 11} THEN 30 ELSE 31

ValidDate(y, m, d) == m \in 1..12 /\ d >= 1 /\ d <= DaysInMonth(y, m)

\* d1 < d2 on dates
DateLess(d1, d2) ==
  \/ d1[1] < d2[1]
  \/ d1[1] = d2[1] /\ d1[2] < d2[2]
  \/ d1[1] = d2[1] /\ d1[2] = d2[2] /\ d1[3] < d2[3]

\* the calendar day after d
NextDay(d) ==
  IF d[3] < DaysInMonth(d[1], d[2]) THEN <<d[1], d[2], d[3] + 1>>
  ELSE IF d[2] < 12 THEN <<d[1], d[2] + 1, 1>>
  ELSE <<d[1] + 1, 1, 1>>

\* cleaner.parse_date: strptime(text, "%m/%Y"); text is <<month, year>> for
\* "MM/YYYY" and <<month, day, year>> for "MM/DD/YYYY"; any failure gives None
parse_date(text) ==
  IF Len(text) = 2 /\ text[1] \in 1..12 THEN <<text[2], text[1], 1>> ELSE NoDate

\* cleaner.compute_months_diff
compute_months_diff(d1, d2) == (d2[1] - d1[1]) * 12 + (d2[2] - d1[2])

(***************************************************************************)
(* Program constants                                                       *)
(***************************************************************************)
\* limit_ok: credit_limit > 1000
CreditLimitFloor == 1000
\* months_on_file >= 12
MinMonths == 12
\* pct_older >= 0.70, as a percentage
RedemptionPct == 70
\* two_years_ago = today.replace(year = year - 2)
TwoYears == 2
\* three_years_ago = today.replace(year = year - 3)
ThreeYears == 3

(***************************************************************************)
(* get_tradelines: one block of the text becomes one tradeline dict.  A    *)
(* block b carries what its text states for each label; account_type is    *)
(* lower-cased by the extractor, the two dates go through parse_date, and  *)
(* "Original Amount" stays in raw_text only: report.py extracts no such    *)
(* field.  raw_text, the chunk, also keeps the "Open Date" as written.     *)
(***************************************************************************)
TextFields(b) ==
  {f \in {b.account_type, b.account_condition, b.payment_status, b.responsibility} : f # None}

\* pattern occurs in chunk.lower()
ChunkMentions(b, pattern) ==
  \E f \in TextFields(b) : InLower(pattern, f)

\* the evaluation dict of lines 189-196
PendingEvaluation ==
  [status |-> "pending", is_bankruptcy_related |-> FALSE, is_positive |-> FALSE,
   is_negative |-> FALSE, is_skipped |-> FALSE]

\* t has no "redemption_evaluation" key before the redemption loop
NoRedemptionEvaluation ==
  [present |-> FALSE, considered |-> FALSE, reason |-> "", status |-> ""]

\* the dict yielded at line 691, with the evaluation of lines 189-196 attached;
\* is_mortgage is read with .get(..., False) until line 227 sets it
tline(b) ==
  [account_type      |-> b.account_type,
   account_condition |-> b.account_condition,
   payment_status    |-> b.payment_status,
   months_reviewed   |-> b.months_reviewed,
   credit_limit      |-> b.credit_limit,
   responsibility    |-> b.responsibility,
   open_date         |-> parse_date(b.open_date),
   status_date       |-> parse_date(b.status_date),
   is_medical_or_edu |-> \/ b.other_text_medical
                         \/ ChunkMentions(b, "student loan")
                         \/ ChunkMentions(b, "education loan")
                         \/ ChunkMentions(b, "medical"),
   raw_text          |-> [original_amount |-> b.original_amount, open_date |-> b.open_date],
   is_mortgage       |-> FALSE,
   evaluation        |-> PendingEvaluation,
   redemption_evaluation |-> NoRedemptionEvaluation]

\* check_prior_bankruptcy
check_prior_bankruptcy(text) == InLower("bankruptcy", text)

(***************************************************************************)
(* The first evaluation, lines 198-384                                     *)
(***************************************************************************)
\* the exclusion test without its "included in bankruptcy" clause
bankruptcy_discharged_mutant(t) ==
  InLower("discharged through bankruptcy", t.account_condition)

\* lines 200-207; account_condition is a string here
bankruptcy_discharged(t) ==
  \/ InLower("discharged through bankruptcy", t.account_condition)
  \/ InLower("included in bankruptcy", t.account_condition)

\* lines 199-207: None.lower() raises AttributeError
bankruptcy_check_raises(t, bankrupt) == bankrupt /\ t.account_condition = None

\* lines 199-216
bankruptcy_excluded(t, bankrupt) ==
  bankrupt /\ t.account_condition # None /\ bankruptcy_discharged(t)

\* lines 220-223
is_mortgage(t) ==
  /\ t.account_type # None
  /\ \/ In("real estate", t.account_type)
     \/ In("mortgage", t.account_type)

\* lines 230-239
is_open_and_current(t) ==
  /\ t.account_condition # None
  /\ t.payment_status # None
  /\ LowerStartsWith(t.account_condition, "open")
  /\ LowerStartsWith(t.payment_status, "current")

\* lines 253-256: months_on_file is not None
months_known(t) == t.months_reviewed # NoInt \/ t.open_date # NoDate

\* lines 253-256
months_on_file(t, today) ==
  IF t.months_reviewed = NoInt /\ t.open_date # NoDate
  THEN compute_months_diff(t.open_date, today)
  ELSE t.months_reviewed

\* line 270
limit_ok(t) ==
  t.credit_limit # NoInt /\ t.credit_limit # 0 /\ t.credit_limit > CreditLimitFloor

\* lines 285-299
skip_for_positive(t) ==
  \/ t.is_medical_or_edu
  \/ /\ t.account_type # None
     /\ \/ In("auto loan", t.account_type)
        \/ In("auto lease", t.account_type)

\* lines 303-319
meets_responsibility(t) ==
  \/ is_mortgage(t)
  \/ /\ t.responsibility # None
     /\ LowerStartsWith(t.responsibility, "individual")

\* lines 321-328
positive_test(t, today) ==
  /\ is_open_and_current(t)
  /\ meets_responsibility(t)
  /\ limit_ok(t)
  /\ months_known(t)
  /\ months_on_file(t, today) >= MinMonths
  /\ ~skip_for_positive(t)

\* lines 340-365
negative_flag(t) ==
  /\ \/ /\ t.account_condition # None
        /\ InLower("unpaid balance reported as loss", t.account_condition)
     \/ /\ t.payment_status # None
        /\ InLower("seriously past due", t.payment_status)
  /\ ~t.is_medical_or_edu

\* the final "neither" test of lines 374-378 looking at is_positive only
evaluated_mutant(t, bankrupt, today) ==
  IF bankruptcy_excluded(t, bankrupt)
  THEN [t EXCEPT !.evaluation =
          [status |-> "skipped", is_bankruptcy_related |-> TRUE, is_positive |-> FALSE,
           is_negative |-> FALSE, is_skipped |-> TRUE]]
  ELSE LET pos == positive_test(t, today)
           neg == negative_flag(t)
       IN [t EXCEPT !.is_mortgage = is_mortgage(t),
                    !.evaluation =
                      [status |-> IF ~pos THEN "skipped"
                                  ELSE IF neg THEN "rejected" ELSE "accepted",
                       is_bankruptcy_related |-> FALSE,
                       is_positive |-> pos,
                       is_negative |-> neg,
                       is_skipped |-> ~pos]]

\* the tradeline as the loop body leaves it, lines 198-384
evaluated(t, bankrupt, today) ==
  IF bankruptcy_excluded(t, bankrupt)
  THEN [t EXCEPT !.evaluation =
          [status |-> "skipped", is_bankruptcy_related |-> TRUE, is_positive |-> FALSE,
           is_negative |-> FALSE, is_skipped |-> TRUE]]
  ELSE LET pos == positive_test(t, today)
           neg == negative_flag(t)
       IN [t EXCEPT !.is_mortgage = is_mortgage(t),
                    !.evaluation =
                      [status |-> IF ~pos /\ ~neg THEN "skipped"
                                  ELSE IF neg THEN "rejected" ELSE "accepted",
                       is_bankruptcy_related |-> FALSE,
                       is_positive |-> pos,
                       is_negative |-> neg,
                       is_skipped |-> ~pos /\ ~neg]]

(***************************************************************************)
(* The redemption re-scoring of one tradeline, lines 430-521               *)
(***************************************************************************)
\* lines 416-422
in_last_3_years(t, cutoff) ==
  t.status_date = NoDate \/ ~DateLess(t.status_date, cutoff)

\* lines 438-450
redemption_bankruptcy_excluded(t, bankrupt) ==
  bankrupt /\ t.account_condition # None /\ bankruptcy_discharged(t)

\* the tradeline passes the bankruptcy check and the 3-year filter
redemption_considered(t, bankrupt, cutoff) ==
  ~redemption_bankruptcy_excluded(t, bankrupt) /\ in_last_3_years(t, cutoff)

\* lines 440, 464-466, 496, 513-514 call .lower() on the value of the key,
\* which is None when the label was not found: AttributeError
redemption_raises(t, bankrupt, cutoff) ==
  \/ bankrupt /\ t.account_condition = None
  \/ /\ redemption_considered(t, bankrupt, cutoff)
     /\ \/ t.account_condition = None
        \/ t.payment_status = None
        \/ ~is_mortgage(t) /\ t.responsibility = None

\* lines 464-466; both fields are strings here
redemption_open_and_current(t) ==
  /\ LowerStartsWith(t.account_condition, "open")
  /\ LowerStartsWith(t.payment_status, "current")

\* lines 468-472
redemption_is_mortgage(t) ==
  /\ t.account_type # None
  /\ \/ In("real estate", t.account_type)
     \/ In("mortgage", t.account_type)

\* line 482
redemption_limit_ok(t) ==
  t.credit_limit # NoInt /\ t.credit_limit # 0 /\ t.credit_limit > CreditLimitFloor

\* lines 484-490
redemption_skip_for_positive(t) ==
  \/ t.is_medical_or_edu
  \/ /\ t.account_type # None
     /\ \/ In("auto loan", t.account_type)
        \/ In("auto lease", t.account_type)

\* lines 492-497
redemption_meets_responsibility(t) ==
  \/ redemption_is_mortgage(t)
  \/ LowerStartsWith(t.responsibility, "individual")

\* lines 500-507; now is the clock read of line 479
redemption_positive(t, now) ==
  /\ redemption_open_and_current(t)
  /\ redemption_meets_responsibility(t)
  /\ redemption_limit_ok(t)
  /\ months_known(t)
  /\ months_on_file(t, now) >= MinMonths
  /\ ~redemption_skip_for_positive(t)

\* the negative test of the redemption pass without its medical guard
redemption_negative_mutant(t) ==
  \/ InLower("unpaid balance reported as loss", t.account_condition)
  \/ InLower("seriously past due", t.payment_status)

\* lines 513-521
redemption_negative(t) ==
  /\ \/ InLower("unpaid balance reported as loss", t.account_condition)
     \/ InLower("seriously past due", t.payment_status)
  /\ ~t.is_medical_or_edu

\* the tradeline as the redemption loop body leaves it, lines 432-521
rescored(t, bankrupt, cutoff, now) ==
  IF redemption_bankruptcy_excluded(t, bankrupt)
  THEN [t EXCEPT !.redemption_evaluation =
          [present |-> TRUE, considered |-> FALSE,
           reason |-> "Excluded due to bankruptcy", status |-> ""]]
  ELSE IF ~in_last_3_years(t, cutoff)
  THEN [t EXCEPT !.redemption_evaluation =
          [present |-> TRUE, considered |-> FALSE,
           reason |-> "Excluded due to being older than 3 years", status |-> ""]]
  ELSE [t EXCEPT !.is_mortgage = redemption_is_mortgage(t),
                 !.redemption_evaluation =
                   [present |-> TRUE, considered |-> TRUE,
                    reason |-> "Considered for redemption scoring",
                    status |-> IF redemption_negative(t) THEN "negative"
                               ELSE IF redemption_positive(t, now) THEN "positive"
                               ELSE ""]]

\* the tradeline as the redemption loop body leaves it when .lower() raises:
\* line 432 has stored the evaluation; a raise at line 440 comes before any
\* other write, a raise at line 464 or 466 comes after lines 459-460, and a
\* raise at line 496 or 514 comes after line 473 as well.  No raise follows
\* the counting of lines 508-510, which needs both fields of line 464-466.
rescored_at_raise(t, bankrupt) ==
  IF bankrupt /\ t.account_condition = None
  THEN [t EXCEPT !.redemption_evaluation =
          [present |-> TRUE, considered |-> FALSE,
           reason |-> "Not considered for redemption scoring", status |-> ""]]
  ELSE IF \/ t.account_condition = None
          \/ /\ LowerStartsWith(t.account_condition, "open")
             /\ t.payment_status = None
  THEN [t EXCEPT !.redemption_evaluation =
          [present |-> TRUE, considered |-> TRUE,
           reason |-> "Considered for redemption scoring", status |-> ""]]
  ELSE [t EXCEPT !.is_mortgage = redemption_is_mortgage(t),
                 !.redemption_evaluation =
                   [present |-> TRUE, considered |-> TRUE,
                    reason |-> "Considered for redemption scoring",
                    status |-> ""]]

(***************************************************************************)
(* grade_report                                                            *)
(***************************************************************************)
\* the mortgage bump applied to a score of 3 as well
grade_report_mutant(score, positive_tradelines) ==
  IF score < 0 THEN 5
  ELSE IF score = 0 THEN 4
  ELSE IF score \in {1, 2} THEN 3
  ELSE IF score \in {3, 4}
       THEN (IF \E i \in 1..Len(positive_tradelines) : positive_tradelines[i]
             THEN 1 ELSE 2)
  ELSE 1

\* positive_tradelines is the sequence of the is_mortgage values of the list
grade_report(score, positive_tradelines) ==
  IF score < 0 THEN 5
  ELSE IF score = 0 THEN 4
  ELSE IF score \in {1, 2} THEN 3
  ELSE IF score \in {3, 4}
       THEN (IF score = 4 /\ \E i \in 1..Len(positive_tradelines) : positive_tradelines[i]
             THEN 1 ELSE 2)
  ELSE 1

(***************************************************************************)
(* Score arithmetic                                                        *)
(***************************************************************************)
\* line 174
base_score_of(bankrupt) == IF bankrupt THEN -1 ELSE 0

\* the negative tradelines added instead of subtracted
combine_score_mutant(base, positives, negatives) == base + positives + negatives

\* lines 387 and 524
combine_score(base, positives, negatives) == base + positives - negatives

\* lines 29-33: the negative tradelines with a status date before the cutoff
older_than_2yrs(tradelines, negatives, cutoff) ==
  {i \in 1..Len(negatives) :
     /\ tradelines[negatives[i]].status_date # NoDate
     /\ DateLess(tradelines[negatives[i]].status_date, cutoff)}

\* lines 34-37: the quotient as an exact fraction, 0.0 being 0/1
pct_older_of(tradelines, negatives, cutoff) ==
  IF Len(negatives) > 0
  THEN [num |-> Cardinality(older_than_2yrs(tradelines, negatives, cutoff)),
        den |-> Len(negatives)]
  ELSE [num |-> 0, den |-> 1]

\* line 403
enters_redemption(pct, negatives) ==
  pct.num * 100 >= RedemptionPct * pct.den /\ Len(negatives) > 0

\* the comparison turned around
adopts_redemption_mutant(redemption_score, score) == redemption_score < score

\* line 530
adopts_redemption(redemption_score, score) == redemption_score > score

\* redemption_result is None in extras
NoResult == << >>

\* line 548
reported_redemption_result(applied, result) ==
  IF applied THEN <<result>> ELSE NoResult

(***************************************************************************)
(* Input                                                                   *)
(***************************************************************************)
\* the wall clock when the run starts: a leap day, a year's last day, and a
\* first of the month (status dates are always the first of their month)
StartDates == {<<2024, 2, 29>>, <<2024, 12, 31>>, <<2025, 9, 1>>}

\* the part of the text outside the tradeline fields
DocTexts == {"Public Records: none", "Public Records: Bankruptcy"}

\* "Status Date" values: absent, recent, exactly two and exactly three years
\* before the latest start date, older than three years
StatusDates == {NoDate, <<1, 2024>>, <<9, 2023>>, <<9, 2022>>, <<1, 2020>>}

\* an open, current, individual bank card with 24 months on file
GoodCard ==
  [account_type |-> "bank credit cards", account_condition |-> "Open",
   payment_status |-> "Current", months_reviewed |-> 24, credit_limit |-> 1001,
   responsibility |-> "Individual", open_date |-> NoDate, status_date |-> NoDate,
   other_text_medical |-> FALSE, original_amount |-> NoInt]

\* the same card, seriously past due
BadCard == [GoodCard EXCEPT !.payment_status = "Seriously past due"]

\* blocks whose outcome does not depend on their status date: a card that
\* passes both tests, a card included in bankruptcy, a card without an
\* "Account Condition" label (tenure from its open date), a joint mortgage,
\* a medical account written off and seriously past due, a card opened in
\* 01/2024 whose tenure comes from that date
OtherKinds ==
  { [GoodCard EXCEPT !.account_condition = "Open/Unpaid balance reported as loss"],
    [BadCard EXCEPT !.account_condition = "Debt Included in Bankruptcy",
                    !.status_date = <<1, 2020>>],
    [GoodCard EXCEPT !.account_condition = None, !.months_reviewed = NoInt,
                     !.open_date = <<8, 2019>>],
    [GoodCard EXCEPT !.account_condition = None, !.months_reviewed = NoInt,
                     !.open_date = <<8, 2019>>, !.status_date = <<1, 2020>>],
    [GoodCard EXCEPT !.account_type = "conventional real estate loan",
                     !.responsibility = "Joint Account"],
    [BadCard EXCEPT !.account_condition = "Unpaid balance reported as loss",
                    !.other_text_medical = TRUE],
    [GoodCard EXCEPT !.months_reviewed = NoInt, !.open_date = <<1, 2024>>] }

\* the blocks of a multi-tradeline document
DocumentBlocks ==
  {[k EXCEPT !.status_date = d] : k \in {GoodCard, BadCard}, d \in StatusDates}
    \cup OtherKinds

\* months_reviewed and open_date of a block: nothing, an open date only (in
\* MM/YYYY and in MM/DD/YYYY form), 11 months, 12 months
Tenures ==
  {<<NoInt, NoDate>>, <<NoInt, <<8, 2019>>>>, <<NoInt, <<8, 9, 2019>>>>,
   <<11, NoDate>>, <<12, NoDate>>}

\* the "Original Amount" a block states, by account type
OriginalAmounts(type) ==
  IF type = "conventional real estate loan" THEN {30000, 30001} ELSE {NoInt, 999}

\* every combination of field values, for a document of a single tradeline
TradelineBlocks ==
  {b \in [account_type : {None, "bank credit cards", "conventional real estate loan",
                          "second mortgage", "auto loan", "selfreported utility"},
          account_condition : {None, "Open", "Paid/zero balance", "Debt Included in Bankruptcy",
                               "Open/Unpaid balance reported as loss"},
          payment_status : {None, "Current", "Current/was 60 days past due", "Seriously past due",
                            "Unpaid balance reported as loss", "60 days past due"},
          months_reviewed : {NoInt, 11, 12},
          credit_limit : {NoInt, 999, 1000, 1001},
          responsibility : {None, "Individual", "Joint Account"},
          open_date : {NoDate, <<8, 2019>>, <<8, 9, 2019>>},
          status_date : {NoDate, <<1, 2020>>},
          other_text_medical : BOOLEAN,
          original_amount : {NoInt, 999, 30000, 30001}] :
     /\ <<b.months_reviewed, b.open_date>> \in Tenures
     /\ b.original_amount \in OriginalAmounts(b.account_type)}

\* the blocks of a long document, for the grade: a good card, a good joint
\* mortgage, a recent and an old seriously-past-due card
GradingBlocks ==
  { GoodCard,
    [GoodCard EXCEPT !.account_type = "conventional real estate loan",
                     !.responsibility = "Joint Account"],
    BadCard,
    [BadCard EXCEPT !.status_date = <<1, 2020>>] }

\* longest document of the grading scope
MaxGraded == 5

\* what the generator can yield, and how many blocks the text has at most
Blocks(sc) ==
  IF sc = "document" THEN DocumentBlocks
  ELSE IF sc = "tradeline" THEN TradelineBlocks
  ELSE GradingBlocks

Cap(sc) ==
  IF sc = "document" THEN MaxTradelines
  ELSE IF sc = "tradeline" THEN 1
  ELSE MaxGraded

\* the block is part of the text check_prior_bankruptcy searched
BlockInDocument(b, bankrupt) == ChunkMentions(b, "bankruptcy") => bankrupt

(***************************************************************************)
(* get_tradelines, lines 588-601: the text is cut into chunks              *)
(***************************************************************************)
\* str.strip(), on the blanks the lines of the model carry
Strip(s) ==
  LET inked == {i \in 1..Len(s) : s[i] # " "}
  IN IF inked = {} THEN << >>
     ELSE SubSeq(s, CHOOSE i \in inked : \A k \in inked : i <= k,
                    CHOOSE i \in inked : \A k \in inked : i >= k)

\* tl_pattern.match(s), tl_pattern being ^(?:\* )?.*\/.*\/.* - : two slashes
\* and, after them, a dash between two blanks
tl_pattern_match(s) ==
  \E i \in 1..Len(s), j \in 1..Len(s) :
    /\ i < j
    /\ s[i] = "/"
    /\ s[j] = "/"
    /\ \E k \in (j + 1)..(Len(s) - 2) :
         s[k] = " " /\ s[k + 1] = "-" /\ s[k + 2] = " "

\* the lines text.split("\n") can give: two headers (one with the asterisk
\* marker), a header whose type wrapped to the next line, a padded field
\* line, a line with one slash only, an empty line
RawLines ==
  {"ACME / 1 / BC - Cards", "* B / 2 / RE - Loan", "X / 3 / AU - ",
   " Open Date 08/2019 ", "a/b - c", ""}

\* line.strip() of line 588, tabulated over the lines
StripTable ==
  [l \in RawLines |-> CHOOSE t \in DOMAIN Chars : Chars[t] = Strip(Chars[l])]

\* tl_pattern.match, tabulated over the strings
MatchTable == [l \in DOMAIN Chars |-> tl_pattern_match(Chars[l])]

\* the texts of up to MaxLines lines
Texts == UNION {[1..n -> RawLines] : n \in 0..MaxLines}

(***************************************************************************)
(* cleaner.extract_credit_limit                                            *)
(***************************************************************************)
Digits == <<"0","1","2","3","4","5","6","7","8","9">>
IsDigit(c) == \E d \in 1..Len(Digits) : Digits[d] = c
DigitValue(c) == (CHOOSE d \in 1..Len(Digits) : Digits[d] = c) - 1

\* re.search(r"\$([\d,]+(?:\.\d{2})?|\d+)", s): where the leftmost match
\* begins, 0 when there is none
amount_start(s) ==
  LET starts == {i \in 1..(Len(s) - 1) :
                   s[i] = "$" /\ (IsDigit(s[i + 1]) \/ s[i + 1] = ",")}
  IN IF starts = {} THEN 0 ELSE CHOOSE i \in starts : \A k \in starts : i <= k

\* match.group(1): the longest run of digits and commas after the dollar
\* sign, with a dot and two digits when they follow
amount_group(s) ==
  LET i == amount_start(s)
      run == {e \in (i + 1)..Len(s) :
                \A k \in (i + 1)..e : IsDigit(s[k]) \/ s[k] = ","}
      e == CHOOSE x \in run : \A k \in run : x >= k
      cents == /\ e + 3 <= Len(s)
               /\ s[e + 1] = "."
               /\ IsDigit(s[e + 2])
               /\ IsDigit(s[e + 3])
  IN SubSeq(s, i + 1, IF cents THEN e + 3 ELSE e)

\* str.replace(",", "")
RECURSIVE without_commas(_)
without_commas(s) ==
  IF s = << >> THEN << >>
  ELSE IF Head(s) = "," THEN without_commas(Tail(s))
  ELSE <<Head(s)>> \o without_commas(Tail(s))

\* int(s) raises ValueError unless s is a non-empty run of digits
int_raises(s) == s = << >> \/ \E k \in 1..Len(s) : ~IsDigit(s[k])

\* int(s) of a run of digits
RECURSIVE int_of(_)
int_of(s) ==
  IF s = << >> THEN 0
  ELSE int_of(SubSeq(s, 1, Len(s) - 1)) * 10 + DigitValue(s[Len(s)])

\* the search and the int(...) of lines 46-52 on one line, tabulated over the
\* strings: no match, ValueError, or the amount
AmountTable ==
  [l \in DOMAIN Chars |->
     IF amount_start(Chars[l]) = 0 THEN [matched |-> FALSE, raises |-> FALSE, amount |-> NoInt]
     ELSE LET digits == without_commas(amount_group(Chars[l]))
          IN IF int_raises(digits) THEN [matched |-> TRUE, raises |-> TRUE, amount |-> NoInt]
             ELSE [matched |-> TRUE, raises |-> FALSE, amount |-> int_of(digits)]]

\* lines 34-38: the index of the line after "Credit" that holds "Limit", 0
\* when there is none (positions count from 1)
credit_limit_index(ls) ==
  LET found == {i \in 1..(Len(ls) - 1) : In("Credit", ls[i]) /\ In("Limit", ls[i + 1])}
  IN IF found = {} THEN 0 ELSE (CHOOSE i \in found : \A k \in found : i <= k) + 1

\* lines 41-52: the position of the first line after the label with a dollar
\* amount, 0 when there is none
amount_line(ls) ==
  LET after == {i \in (credit_limit_index(ls) + 1)..Len(ls) : AmountTable[ls[i]].matched}
  IN IF credit_limit_index(ls) = 0 \/ after = {} THEN 0
     ELSE CHOOSE i \in after : \A k \in after : i <= k

\* extract_credit_limit(lines): None, or ValueError, or the amount
extract_credit_limit(ls) ==
  IF amount_line(ls) = 0 THEN [raises |-> FALSE, amount |-> NoInt]
  ELSE [raises |-> AmountTable[ls[amount_line(ls)]].raises,
        amount |-> AmountTable[ls[amount_line(ls)]].amount]

\* the lines of a chunk around its "Credit Limit" label
ChunkLines == {"Credit", "Limit", "$500.75", "$1,250.00", "$1,001", "Open"}

\* the chunks of up to MaxLines lines
Chunks == UNION {[1..n -> ChunkLines] : n \in 0..MaxLines}

(***************************************************************************)
(* State                                                                   *)
(***************************************************************************)
VARIABLES
  pc, scope, clock, ticks, full_text, error,
  report_date, has_bankruptcy, base_score,
  positive_count, negative_count,
  positive_tradelines_list, negative_tradelines_list, skipped_tradelines_list,
  all_tradelines, raw_score, redemption_applied, redemption_result, pct_older,
  today_read, three_years_ago,
  redemption_pos, redemption_neg, redemption_pos_tradelines, redemption_neg_tradelines,
  rindex, final_score, final_grade, extras,
  lines, line_index, current_chunk, tradeline_chunks, credit_limit_search_result

input == <<scope, full_text>>
firstPass == <<report_date, has_bankruptcy, base_score, positive_count, negative_count,
               skipped_tradelines_list>>
lists == <<positive_tradelines_list, negative_tradelines_list>>
aggregate == <<raw_score, redemption_applied, redemption_result, pct_older>>
redemption == <<three_years_ago, redemption_pos, redemption_neg,
                redemption_pos_tradelines, redemption_neg_tradelines, rindex>>
result == <<final_score, final_grade, extras>>
\* get_tradelines: the lines of the text (lines 588-601) or of a chunk (line
\* 661), the position of the segmenting loop in them, the chunk being
\* collected, the chunks completed, and what extract_credit_limit returned
segmenter == <<lines, line_index, current_chunk, tradeline_chunks,
               credit_limit_search_result>>

vars == <<pc, clock, ticks, error, input, firstPass, lists, all_tradelines, aggregate,
          today_read, redemption, result, segmenter>>

\* the tradeline lists hold references to the dicts of all_tradelines: a list
\* is the sequence of the positions of its members in all_tradelines
NothingScored ==
  /\ ticks = 0
  /\ error = ""
  /\ report_date = NoDate
  /\ has_bankruptcy = FALSE
  /\ base_score = 0
  /\ positive_count = 0
  /\ negative_count = 0
  /\ positive_tradelines_list = << >>
  /\ negative_tradelines_list = << >>
  /\ skipped_tradelines_list = << >>
  /\ all_tradelines = << >>
  /\ raw_score = 0
  /\ redemption_applied = FALSE
  /\ redemption_result = [applied |-> FALSE, positive_count |-> 0,
                          negative_count |-> 0, final_score |-> 0]
  /\ pct_older = [num |-> 0, den |-> 1]
  /\ today_read = NoDate
  /\ three_years_ago = NoDate
  /\ redemption_pos = 0
  /\ redemption_neg = 0
  /\ redemption_pos_tradelines = << >>
  /\ redemption_neg_tradelines = << >>
  /\ rindex = 0
  /\ final_score = 0
  /\ final_grade = 0
  /\ extras = << >>

\* score_credit_report is about to run; the text reaches it as blocks
InitRun ==
  /\ pc = "start"
  /\ clock \in StartDates
  /\ full_text \in DocTexts
  /\ NothingScored
  /\ lines = << >>
  /\ line_index = 0
  /\ current_chunk = << >>
  /\ tradeline_chunks = << >>
  /\ credit_limit_search_result = NoInt

\* documents of up to MaxTradelines blocks
Init == scope = "document" /\ InitRun

\* documents of one block, over every combination of its fields
InitTradeline == scope = "tradeline" /\ InitRun /\ clock = <<2025, 9, 1>>

\* get_tradelines is about to cut a text of up to MaxLines lines
InitSegment ==
  /\ scope = "segment"
  /\ pc = "split"
  /\ clock = <<2025, 9, 1>>
  /\ full_text = "Public Records: none"
  /\ NothingScored
  /\ lines \in Texts
  /\ line_index = 1
  /\ current_chunk = << >>
  /\ tradeline_chunks = << >>
  /\ credit_limit_search_result = NoInt

\* extract_credit_limit is about to read a chunk of up to MaxLines lines
InitAmount ==
  /\ scope = "amount"
  /\ pc = "extract"
  /\ clock = <<2025, 9, 1>>
  /\ full_text = "Public Records: none"
  /\ NothingScored
  /\ lines \in Chunks
  /\ line_index = 0
  /\ current_chunk = << >>
  /\ tradeline_chunks = << >>
  /\ credit_limit_search_result = NoInt

\* long documents of plain blocks
InitGrading == scope = "grading" /\ InitRun /\ clock \in {<<2024, 12, 31>>, <<2025, 9, 1>>}

(***************************************************************************)
(* score_credit_report                                                     *)
(***************************************************************************)
\* lines 162-182
StartScoring ==
  /\ pc = "start"
  /\ pc' = "tradelines"
  /\ report_date' = clock
  /\ has_bankruptcy' = check_prior_bankruptcy(full_text)
  /\ base_score' = base_score_of(check_prior_bankruptcy(full_text))
  /\ UNCHANGED <<clock, ticks, error, input, positive_count, negative_count,
                 skipped_tradelines_list, lists, all_tradelines, aggregate,
                 today_read, redemption, result, segmenter>>

\* lines 184-384: the generator yields the next block and the loop body runs
ScoreTradeline(b) ==
  /\ BlockInDocument(b, has_bankruptcy)
  /\ LET t == tline(b)
         i == Len(all_tradelines) + 1
     IN IF bankruptcy_check_raises(t, has_bankruptcy)
        THEN /\ pc' = "raised"
             /\ error' = "AttributeError"
             /\ all_tradelines' = Append(all_tradelines, t)
             /\ UNCHANGED <<positive_count, negative_count, lists,
                            skipped_tradelines_list>>
        ELSE LET e == evaluated(t, has_bankruptcy, report_date)
             IN /\ pc' = "tradelines"
                /\ error' = error
                /\ all_tradelines' = Append(all_tradelines, e)
                /\ positive_count' =
                     IF e.evaluation.is_positive THEN positive_count + 1 ELSE positive_count
                /\ negative_count' =
                     IF e.evaluation.is_negative THEN negative_count + 1 ELSE negative_count
                /\ positive_tradelines_list' =
                     IF e.evaluation.is_positive
                     THEN Append(positive_tradelines_list, i) ELSE positive_tradelines_list
                /\ negative_tradelines_list' =
                     IF e.evaluation.is_negative
                     THEN Append(negative_tradelines_list, i) ELSE negative_tradelines_list
                /\ skipped_tradelines_list' =
                     IF e.evaluation.is_skipped
                     THEN Append(skipped_tradelines_list, i) ELSE skipped_tradelines_list
  /\ UNCHANGED <<clock, ticks, input, report_date, has_bankruptcy, base_score,
                 aggregate, today_read, redemption, result, segmenter>>

\* line 184: the generator has another block to yield
NextTradeline ==
  /\ pc = "tradelines"
  /\ Len(all_tradelines) < Cap(scope)
  /\ \E b \in Blocks(scope) : ScoreTradeline(b)

\* lines 386-396, and the call of line 402 up to the first clock read of line 28
EndOfTradelines ==
  /\ pc = "tradelines"
  /\ pc' = "pct_older"
  /\ raw_score' = combine_score(base_score, positive_count, negative_count)
  /\ redemption_applied' = FALSE
  /\ redemption_result' =
       [applied |-> FALSE, positive_count |-> 0, negative_count |-> 0,
        final_score |-> combine_score(base_score, positive_count, negative_count)]
  /\ today_read' = clock
  /\ UNCHANGED <<clock, ticks, error, input, firstPass, lists, all_tradelines,
                 pct_older, redemption, result, segmenter>>

\* lines 28-37 from the second clock read on, then lines 402-409;
\* date.replace raises ValueError when the day does not exist in the new year
PercentOlder ==
  /\ pc = "pct_older"
  /\ IF ~ValidDate(clock[1] - TwoYears, today_read[2], today_read[3])
     THEN /\ pc' = "raised"
          /\ error' = "ValueError"
          /\ UNCHANGED <<pct_older, redemption_applied, redemption_result>>
     ELSE LET two_years_ago == <<clock[1] - TwoYears, today_read[2], today_read[3]>>
              pct == pct_older_of(all_tradelines, negative_tradelines_list, two_years_ago)
              enter == enters_redemption(pct, negative_tradelines_list)
          IN /\ pct_older' = pct
             /\ redemption_applied' = enter
             /\ redemption_result' = [redemption_result EXCEPT !.applied = enter]
             /\ pc' = IF enter THEN "cutoff" ELSE "grade"
             /\ error' = error
  /\ UNCHANGED <<clock, ticks, input, firstPass, lists, all_tradelines, raw_score,
                 today_read, redemption, result, segmenter>>

\* line 411, the first clock read: datetime.now().date()
ReadCutoffDate ==
  /\ pc = "cutoff"
  /\ pc' = "cutoff_year"
  /\ today_read' = clock
  /\ UNCHANGED <<clock, ticks, error, input, firstPass, lists, all_tradelines,
                 aggregate, redemption, result, segmenter>>

\* line 411, the second clock read and replace(), then lines 425-428
ComputeCutoff ==
  /\ pc = "cutoff_year"
  /\ IF ~ValidDate(clock[1] - ThreeYears, today_read[2], today_read[3])
     THEN /\ pc' = "raised"
          /\ error' = "ValueError"
          /\ UNCHANGED redemption
     ELSE /\ pc' = "redemption"
          /\ error' = error
          /\ three_years_ago' = <<clock[1] - ThreeYears, today_read[2], today_read[3]>>
          /\ redemption_pos' = 0
          /\ redemption_neg' = 0
          /\ redemption_pos_tradelines' = << >>
          /\ redemption_neg_tradelines' = << >>
          /\ rindex' = 1
  /\ UNCHANGED <<clock, ticks, input, firstPass, lists, all_tradelines, aggregate,
                 today_read, result, segmenter>>

\* lines 430-521: one iteration of the redemption loop
RescoreTradeline ==
  /\ pc = "redemption"
  /\ rindex <= Len(all_tradelines)
  /\ LET t == all_tradelines[rindex]
     IN IF redemption_raises(t, has_bankruptcy, three_years_ago)
        THEN /\ pc' = "raised"
             /\ error' = "AttributeError"
             /\ all_tradelines' =
                  [all_tradelines EXCEPT ![rindex] = rescored_at_raise(t, has_bankruptcy)]
             /\ UNCHANGED redemption
        ELSE LET r == rescored(t, has_bankruptcy, three_years_ago, clock)
                 considered == r.redemption_evaluation.considered
                 pos == considered /\ redemption_positive(t, clock)
                 neg == considered /\ redemption_negative(t)
             IN /\ pc' = "redemption"
                /\ error' = error
                /\ all_tradelines' = [all_tradelines EXCEPT ![rindex] = r]
                /\ redemption_pos' = IF pos THEN redemption_pos + 1 ELSE redemption_pos
                /\ redemption_neg' = IF neg THEN redemption_neg + 1 ELSE redemption_neg
                /\ redemption_pos_tradelines' =
                     IF pos THEN Append(redemption_pos_tradelines, rindex)
                     ELSE redemption_pos_tradelines
                /\ redemption_neg_tradelines' =
                     IF neg THEN Append(redemption_neg_tradelines, rindex)
                     ELSE redemption_neg_tradelines
                /\ rindex' = rindex + 1
                /\ UNCHANGED three_years_ago
  /\ UNCHANGED <<clock, ticks, input, firstPass, lists, aggregate, today_read, result, segmenter>>

\* lines 523-534
EndOfRedemption ==
  /\ pc = "redemption"
  /\ rindex > Len(all_tradelines)
  /\ pc' = "grade"
  /\ LET redemption_raw_score == combine_score(base_score, redemption_pos, redemption_neg)
         adopt == adopts_redemption(redemption_raw_score, raw_score)
     IN /\ redemption_result' =
             [redemption_result EXCEPT !.positive_count = redemption_pos,
                                       !.negative_count = redemption_neg,
                                       !.final_score = redemption_raw_score]
        /\ raw_score' = IF adopt THEN redemption_raw_score ELSE raw_score
        /\ positive_tradelines_list' =
             IF adopt THEN redemption_pos_tradelines ELSE positive_tradelines_list
        /\ negative_tradelines_list' =
             IF adopt THEN redemption_neg_tradelines ELSE negative_tradelines_list
  /\ UNCHANGED <<clock, ticks, error, input, firstPass, all_tradelines,
                 redemption_applied, pct_older, today_read, redemption, result, segmenter>>

\* the is_mortgage values of the tradelines of a list
mortgage_flags(tradelines, list) ==
  [i \in 1..Len(list) |-> tradelines[list[i]].is_mortgage]

\* lines 536-555
Finish ==
  /\ pc = "grade"
  /\ pc' = "returned"
  /\ final_score' = raw_score
  /\ final_grade' =
       grade_report(raw_score, mortgage_flags(all_tradelines, positive_tradelines_list))
  /\ extras' =
       <<[positive_count |-> positive_count,
          negative_count |-> negative_count,
          base_score_start |-> base_score,
          has_bankruptcy |-> has_bankruptcy,
          pct_neg_older_2yr |-> pct_older,
          redemption_applied |-> redemption_applied,
          redemption_result |->
            reported_redemption_result(redemption_applied, redemption_result),
          accepted_tradelines |-> positive_tradelines_list,
          rejected_tradelines |-> negative_tradelines_list,
          skipped_tradelines |-> skipped_tradelines_list,
          all_tradelines |-> all_tradelines]>>
  /\ UNCHANGED <<clock, ticks, error, input, firstPass, lists, all_tradelines,
                 aggregate, today_read, redemption, segmenter>>

\* the wall clock passes midnight while the run is in progress
Tick ==
  /\ pc \notin {"returned", "raised"}
  /\ ticks < MaxTicks
  /\ clock' = NextDay(clock)
  /\ ticks' = ticks + 1
  /\ UNCHANGED <<pc, error, input, firstPass, lists, all_tradelines, aggregate,
                 today_read, redemption, result, segmenter>>

\* lines 588-599: one iteration of the loop over the stripped lines; a
\* chunk is the sequence of the lines that "\n".join puts together
SplitLine ==
  /\ pc = "split"
  /\ line_index <= Len(lines)
  /\ LET line == StripTable[lines[line_index]]
     IN IF MatchTable[line]
        THEN /\ tradeline_chunks' =
                  IF current_chunk # << >>
                  THEN Append(tradeline_chunks, current_chunk) ELSE tradeline_chunks
             /\ current_chunk' = <<line>>
        ELSE /\ current_chunk' =
                  IF current_chunk # << >>
                  THEN Append(current_chunk, line) ELSE current_chunk
             /\ UNCHANGED tradeline_chunks
  /\ line_index' = line_index + 1
  /\ UNCHANGED <<pc, lines, clock, ticks, error, input, firstPass, lists, all_tradelines,
                 aggregate, today_read, redemption, result, credit_limit_search_result>>

\* lines 600-601
EndOfLines ==
  /\ pc = "split"
  /\ line_index > Len(lines)
  /\ pc' = "chunks"
  /\ tradeline_chunks' =
       IF current_chunk # << >>
       THEN Append(tradeline_chunks, current_chunk) ELSE tradeline_chunks
  /\ UNCHANGED <<lines, line_index, current_chunk, clock, ticks, error, input, firstPass,
                 lists, all_tradelines, aggregate, today_read, redemption, result,
                 credit_limit_search_result>>

\* a step of the segmenting loop of get_tradelines
Segment ==
  \/ SplitLine
  \/ EndOfLines

\* lines 661-663: the call of extract_credit_limit on the lines of a chunk
ExtractCreditLimit ==
  /\ pc = "extract"
  /\ LET found == extract_credit_limit(lines)
     IN IF found.raises
        THEN /\ pc' = "raised"
             /\ error' = "ValueError"
             /\ UNCHANGED credit_limit_search_result
        ELSE /\ pc' = "extracted"
             /\ error' = error
             /\ credit_limit_search_result' = found.amount
  /\ UNCHANGED <<lines, line_index, current_chunk, tradeline_chunks, clock, ticks, input,
                 firstPass, lists, all_tradelines, aggregate, today_read, redemption,
                 result>>

\* a step of score_credit_report
Run ==
  \/ StartScoring
  \/ NextTradeline
  \/ EndOfTradelines
  \/ PercentOlder
  \/ ReadCutoffDate
  \/ ComputeCutoff
  \/ RescoreTradeline
  \/ EndOfRedemption
  \/ Finish

Next ==
  \/ Run
  \/ Tick

Spec == Init /\ [][Next]_vars

\* the run of a single-tradeline document is over within the day
SpecTradeline == InitTradeline /\ [][Run]_vars

SpecGrading == InitGrading /\ [][Next]_vars

\* the segmenting loop alone
SpecSegment == InitSegment /\ [][Segment]_vars

\* the credit limit extraction alone
SpecAmount == InitAmount /\ [][ExtractCreditLimit]_vars

(***************************************************************************)
(* Properties                                                              *)
(***************************************************************************)
\* the positions of all_tradelines whose first evaluation has completed
Evaluated == {i \in 1..Len(all_tradelines) : all_tradelines[i].evaluation.status # "pending"}

Positives == {i \in Evaluated : all_tradelines[i].evaluation.is_positive}
Negatives == {i \in Evaluated : all_tradelines[i].evaluation.is_negative}

\* the members of a tradeline list
Members(list) == {list[i] : i \in 1..Len(list)}

\* the run has aggregated the raw score and has not yet compared it with
\* the redemption score
BeforeAdjustment == pc \in {"pct_older", "cutoff", "cutoff_year", "redemption"}

\* C1: before any redemption adjustment, raw_score is base_score plus the
\* number of tradelines accepted as positive minus the number marked
\* negative, base_score being -1 when the text mentions bankruptcy and 0
\* otherwise.
C1_RawScoreIsBasePlusPositivesMinusNegatives ==
  BeforeAdjustment =>
    /\ base_score = (IF check_prior_bankruptcy(full_text) THEN -1 ELSE 0)
    /\ positive_count = Cardinality(Positives)
    /\ negative_count = Cardinality(Negatives)
    /\ raw_score = base_score + Cardinality(Positives) - Cardinality(Negatives)

\* C1 witness: a bankruptcy document with one positive and one negative
\* tradeline has been aggregated.
C1_Witness ==
  /\ pc = "pct_older"
  /\ has_bankruptcy
  /\ Cardinality(Positives \ Negatives) = 1
  /\ Cardinality(Negatives \ Positives) = 1
  /\ raw_score = -1

\* C2 as stated: every evaluated tradeline has exactly one of is_positive,
\* is_negative, is_skipped true.
C2_ExactlyOneFlag ==
  \A i \in Evaluated :
    LET e == all_tradelines[i].evaluation
    IN /\ e.is_positive \/ e.is_negative \/ e.is_skipped
       /\ ~(e.is_positive /\ e.is_negative)
       /\ ~(e.is_positive /\ e.is_skipped)
       /\ ~(e.is_negative /\ e.is_skipped)

\* C2 amended: every evaluated tradeline has at least one flag true, and
\* is_skipped is true exactly when is_positive and is_negative are both
\* false; a bankruptcy-excluded tradeline is skipped and neither positive nor
\* negative; a tradeline that is both positive and negative has status
\* "rejected" and its condition carries the loss text or its payment status
\* the seriously-past-due text.
C2_SkippedIffNeitherPositiveNorNegative ==
  \A i \in Evaluated :
    LET t == all_tradelines[i]
        e == t.evaluation
    IN /\ e.is_positive \/ e.is_negative \/ e.is_skipped
       /\ e.is_skipped <=> (~e.is_positive /\ ~e.is_negative)
       /\ e.is_bankruptcy_related => e.is_skipped
       /\ e.status = (IF e.is_skipped THEN "skipped"
                      ELSE IF e.is_negative THEN "rejected" ELSE "accepted")
       /\ (e.is_positive /\ e.is_negative) =>
             \/ InLower("unpaid balance reported as loss", t.account_condition)
             \/ InLower("seriously past due", t.payment_status)

\* C2 witness: a returned tradeline that is both positive and negative.
C2_Witness ==
  /\ pc = "returned"
  /\ \E i \in Evaluated :
       /\ all_tradelines[i].evaluation.is_positive
       /\ all_tradelines[i].evaluation.is_negative
       /\ ~all_tradelines[i].evaluation.is_skipped

\* C3: when the bankruptcy flag is true, a tradeline whose condition contains
\* "included in bankruptcy" in any letter case is skipped and
\* bankruptcy-related, is in neither the positive nor the negative list and in
\* neither count, and no later rule has touched it (is_mortgage is never set,
\* the redemption loop never considers it).
C3_IncludedInBankruptcyIsSkipped ==
  \A i \in Evaluated :
    LET t == all_tradelines[i]
    IN (/\ has_bankruptcy
        /\ t.account_condition # None
        /\ InLower("included in bankruptcy", t.account_condition))
       => /\ t.evaluation.status = "skipped"
          /\ t.evaluation.is_skipped
          /\ t.evaluation.is_bankruptcy_related
          /\ ~t.evaluation.is_positive
          /\ ~t.evaluation.is_negative
          /\ ~t.is_mortgage
          /\ ~t.redemption_evaluation.considered
          /\ i \in Members(skipped_tradelines_list)
          /\ i \notin Members(positive_tradelines_list)
          /\ i \notin Members(negative_tradelines_list)
          /\ i \notin Members(redemption_pos_tradelines)
          /\ i \notin Members(redemption_neg_tradelines)
          /\ positive_count = Cardinality(Positives \ {i})
          /\ negative_count = Cardinality(Negatives \ {i})

\* C3 witness: an open, current real-estate loan with a sufficient credit
\* limit and tenure, whose condition is "Debt Included in Bankruptcy" in mixed
\* case, has been scored and the result returned.
C3_Witness ==
  /\ pc = "returned"
  /\ \E i \in Evaluated :
       LET t == all_tradelines[i]
       IN /\ t.account_condition = "Debt Included in Bankruptcy"
          /\ t.account_type = "conventional real estate loan"
          /\ t.payment_status = "Seriously past due"
          /\ t.credit_limit = 1001
          /\ t.months_reviewed = 12
          /\ t.evaluation.is_bankruptcy_related

\* the score of the first pass, which the counters still hold on return
PreRedemptionScore == base_score + positive_count - negative_count

\* C4: in every returned result, a redemption score not above the
\* pre-redemption raw score means redemption_applied is false and the
\* returned counts are the pre-redemption counts.
C4_RedemptionAppliedOnlyWhenBetter ==
  (/\ pc = "returned"
   /\ redemption_result.final_score <= PreRedemptionScore)
  => /\ ~extras[1].redemption_applied
     /\ extras[1].positive_count = Cardinality(Positives)
     /\ extras[1].negative_count = Cardinality(Negatives)

\* the redemption loop has run over every tradeline
RedemptionDone ==
  /\ pc \in {"redemption", "grade", "returned"}
  /\ rindex > Len(all_tradelines)

\* a date some years before another, the day kept as it is
YearsBefore(date, years) == <<date[1] - years, date[2], date[3]>>

\* C5: the 3-year filter removes only negative tradelines whose status date
\* is present and strictly older than report_date minus 3 years; every other
\* tradeline that the bankruptcy rule has not excluded (accepted, skipped, or
\* negative with an absent or recent status date) is in the filtered set.
C5_OnlyOldNegativesRemoved ==
  RedemptionDone =>
    \A i \in 1..Len(all_tradelines) :
      LET t == all_tradelines[i]
      IN (/\ ~t.evaluation.is_bankruptcy_related
          /\ ~(/\ t.evaluation.is_negative
               /\ t.status_date # NoDate
               /\ DateLess(t.status_date, YearsBefore(report_date, ThreeYears))))
         => t.redemption_evaluation.considered

\* C6: every returned result carries the redemption detail: the percentage
\* and the alternative counts and score.
C6_RedemptionDetailAlwaysReported ==
  pc = "returned" =>
    /\ extras[1].pct_neg_older_2yr.den > 0
    /\ extras[1].redemption_result # NoResult

\* whether a returned accepted tradeline is flagged is_mortgage
AcceptedMortgage ==
  \E i \in Members(extras[1].accepted_tradelines) :
    extras[1].all_tradelines[i].is_mortgage

\* C7: the returned grade is 5 below 0, 4 at 0, 3 at 1 or 2, 2 at 3 and at 4
\* without an accepted mortgage, 1 at 4 with an accepted mortgage and from 5
\* up; it is always in 1..5.
C7_GradeMapping ==
  pc = "returned" =>
    /\ final_grade \in 1..5
    /\ final_score < 0 => final_grade = 5
    /\ final_score = 0 => final_grade = 4
    /\ final_score \in {1, 2} => final_grade = 3
    /\ (final_score = 3 \/ (final_score = 4 /\ ~AcceptedMortgage)) => final_grade = 2
    /\ ((final_score = 4 /\ AcceptedMortgage) \/ final_score >= 5) => final_grade = 1

\* C7 witness: a result with score 4 and an accepted mortgage, graded 1.
C7_Witness ==
  /\ pc = "returned"
  /\ final_score = 4
  /\ AcceptedMortgage
  /\ final_grade = 1

\* a tradeline the first evaluation went through without excluding it
Scored(i) ==
  i \in Evaluated /\ ~all_tradelines[i].evaluation.is_bankruptcy_related

ConventionalOrFHA(t) ==
  /\ t.account_type # None
  /\ \/ In("conventional real estate loan", t.account_type)
     \/ In("fha real estate loan", t.account_type)

\* open and current as the rulebook reads them: the condition contains
\* "open", the payment status contains "current" and is not the compound
\* "current/was N days past due"
RulebookOpen(t) == t.account_condition # None /\ InLower("open", t.account_condition)
RulebookCurrent(t) ==
  /\ t.payment_status # None
  /\ InLower("current", t.payment_status)
  /\ t.payment_status # "Current/was 60 days past due"

\* C8: a conventional/FHA real-estate tradeline is accepted as positive
\* exactly when it is open, current and its original amount is above 30000.
C8_MortgageAcceptedOnOriginalAmount ==
  \A i \in 1..Len(all_tradelines) :
    (Scored(i) /\ ConventionalOrFHA(all_tradelines[i])) =>
      LET t == all_tradelines[i]
      IN t.evaluation.is_positive <=>
           (RulebookOpen(t) /\ RulebookCurrent(t) /\ t.raw_text.original_amount > 30000)

\* C9: a non-mortgage tradeline that meets every other positive condition
\* passes the amount test with credit_limit = 1000 and fails it with
\* credit_limit = 999 and original_amount = 999.
C9_AmountThresholdIsAtLeast1000 ==
  \A i \in 1..Len(all_tradelines) :
    LET t == all_tradelines[i]
    IN (/\ Scored(i)
        /\ ~is_mortgage(t)
        /\ RulebookOpen(t) /\ RulebookCurrent(t)
        /\ t.months_reviewed >= 12
        /\ t.responsibility = "Individual"
        /\ ~skip_for_positive(t))
       => /\ t.credit_limit = 1000 => t.evaluation.is_positive
          /\ (t.credit_limit = 999 /\ t.raw_text.original_amount = 999)
               => ~t.evaluation.is_positive

\* C10: a tradeline whose payment status is "current/was 60 days past due" is
\* never accepted as positive, and is not marked negative on that status.
C10_CompoundStatusIsNotCurrent ==
  \A i \in 1..Len(all_tradelines) :
    LET t == all_tradelines[i]
    IN (Scored(i) /\ t.payment_status = "Current/was 60 days past due")
       => /\ ~t.evaluation.is_positive
          /\ t.evaluation.is_negative =>
               InLower("unpaid balance reported as loss", t.account_condition)

\* C11: a document in which no tradeline is extracted is scored without an
\* error: the run does not raise, both counts are 0 and the score is
\* base_score; without a bankruptcy keyword the score is 0, the grade 4 and
\* the accepted and rejected lists are empty.
C11_NoTradelinesIsNotAnError ==
  Len(all_tradelines) = 0 =>
    /\ pc # "raised"
    /\ pc = "returned" =>
         /\ extras[1].positive_count = 0
         /\ extras[1].negative_count = 0
         /\ final_score = base_score
         /\ ~has_bankruptcy =>
              /\ final_score = 0
              /\ final_grade = 4
              /\ extras[1].accepted_tradelines = << >>
              /\ extras[1].rejected_tradelines = << >>

\* the only tradeline of the document
OnlyTradeline == all_tradelines[1]

\* a returned bankruptcy document of exactly one tradeline, marked negative
BankruptcyAndOneNegative ==
  /\ pc = "returned"
  /\ has_bankruptcy
  /\ Len(all_tradelines) = 1
  /\ OnlyTradeline.evaluation.is_negative

LacksAField(t) ==
  \/ t.account_condition = None
  \/ t.payment_status = None
  \/ t.responsibility = None

\* C13: an absent field never aborts scoring: a run over a document with a
\* tradeline that lacks its condition, payment status or responsibility does
\* not raise, with the bankruptcy flag true and in the redemption pass too.
C13_AbsentFieldsNeverAbort ==
  (\E i \in 1..Len(all_tradelines) : LacksAField(all_tradelines[i]))
    => ~(pc = "raised" /\ error = "AttributeError")

\* C14: one report date serves the whole run: every date the run reads from
\* the clock is report_date, the three-year cutoff is report_date minus three
\* years, and a tradeline is dropped by the redemption pass exactly when its
\* status date is older than that, even if the wall clock advances.
C14_OneReportDate ==
  /\ today_read # NoDate => today_read = report_date
  /\ three_years_ago # NoDate => three_years_ago = YearsBefore(report_date, ThreeYears)
  /\ \A i \in 1..Len(all_tradelines) :
       LET t == all_tradelines[i]
       IN (t.redemption_evaluation.present /\ ~t.evaluation.is_bankruptcy_related) =>
            (t.redemption_evaluation.considered <=>
               ~(/\ t.status_date # NoDate
                 /\ DateLess(t.status_date, YearsBefore(report_date, ThreeYears))))

\* the negative tradelines of the first pass whose status date is present and
\* older than the cutoff
OlderNegatives(cutoff) ==
  {i \in Negatives : /\ all_tradelines[i].status_date # NoDate
                     /\ DateLess(all_tradelines[i].status_date, cutoff)}

\* the percentage has been computed and the lists are those of the first pass
PercentComputed ==
  \/ pc \in {"cutoff", "cutoff_year"}
  \/ pc = "grade" /\ rindex = 0

\* C15: pctOld is the number of negative tradelines with a status date older
\* than report_date minus 2 years over the number of negative tradelines, 0.0
\* when there is none, and the redemption branch is entered exactly when
\* there is a negative tradeline and pctOld >= 0.70.
C15_PctOldAndThreshold ==
  PercentComputed =>
    LET old == Cardinality(OlderNegatives(YearsBefore(report_date, TwoYears)))
        all == Cardinality(Negatives)
    IN /\ all = 0 => (pct_older.num = 0 /\ pct_older.den = 1)
       /\ all > 0 => pct_older.num * all = old * pct_older.den
       /\ redemption_applied <=> (all > 0 /\ old * 10 >= all * 7)
       /\ redemption_applied <=> pc # "grade"

\* the negative clauses of the rulebook: (a) the loss text in the condition
\* or in the payment status, (b) a seriously-past-due payment status, (d) a
\* payment status that is "60 days past due" and nothing else (of the five
\* such statuses the documents of the model carry this one) on an account
\* that is not paid
RulebookLoss(t) ==
  \/ t.account_condition # None
       /\ InLower("unpaid balance reported as loss", t.account_condition)
  \/ t.payment_status # None
       /\ InLower("unpaid balance reported as loss", t.payment_status)
RulebookSeriouslyPastDue(t) ==
  t.payment_status # None /\ InLower("seriously past due", t.payment_status)
RulebookDaysPastDue(t) ==
  /\ t.payment_status # None
  /\ LowerTable[t.payment_status] = Chars["60 days past due"]
  /\ ~(t.account_condition # None /\ InLower("paid/zero balance", t.account_condition))

\* C16: a tradeline that is neither bankruptcy-excluded nor medical or
\* educational is marked negative when clause (a), (b) or (d) holds, and it
\* is one negative tradeline however many clauses hold: it is in the
\* negative list once and negative_count counts it once.
C16_NegativeClauses ==
  \A i \in 1..Len(all_tradelines) :
    LET t == all_tradelines[i]
    IN (/\ Scored(i)
        /\ ~t.is_medical_or_edu
        /\ RulebookLoss(t) \/ RulebookSeriouslyPastDue(t) \/ RulebookDaysPastDue(t))
       => /\ t.evaluation.is_negative
          /\ Cardinality({k \in 1..Len(negative_tradelines_list) :
                            negative_tradelines_list[k] = i}) = 1
          /\ negative_count = Cardinality(Negatives)

\* the amount test of the relaxed mortgage rule
RulebookMortgageAmount(t) == t.raw_text.original_amount > 30000

\* C17: a conventional or FHA real-estate tradeline that is open, current
\* and above the amount threshold is accepted as positive, whether its
\* responsibility is individual or joint and whether its months on file are
\* below 12, at least 12 or unknown.
C17_MortgageIgnoresResponsibilityAndTenure ==
  \A i \in 1..Len(all_tradelines) :
    LET t == all_tradelines[i]
    IN (/\ Scored(i)
        /\ ConventionalOrFHA(t)
        /\ RulebookOpen(t) /\ RulebookCurrent(t)
        /\ RulebookMortgageAmount(t))
       => t.evaluation.is_positive

\* the account type names a mortgage of any kind (lines 220-223)
AnyMortgage(t) ==
  /\ t.account_type # None
  /\ In("mortgage", t.account_type) \/ In("real estate", t.account_type)

IndividualResponsibility(t) ==
  t.responsibility # None /\ InLower("individual", t.responsibility)

\* C18: a tradeline whose account type contains "mortgage" or "real estate"
\* but is not a conventional or FHA real-estate loan is accepted as positive
\* only if its responsibility contains "individual".
C18_OnlyConventionalOrFHAIsRelaxed ==
  \A i \in 1..Len(all_tradelines) :
    LET t == all_tradelines[i]
    IN (/\ Scored(i)
        /\ AnyMortgage(t)
        /\ ~ConventionalOrFHA(t)
        /\ t.evaluation.is_positive)
       => IndividualResponsibility(t)

\* the account types the rulebook never counts as positive
RulebookAuto(t) ==
  t.account_type # None /\ (In("auto loan", t.account_type) \/ In("auto lease", t.account_type))
RulebookSelfReported(t) ==
  t.account_type # None /\ In("selfreported", t.account_type)

\* C19: a tradeline that is not a conventional or FHA real-estate loan and
\* is medical or educational, an auto loan or lease, or self-reported is
\* never accepted as positive.
C19_ExcludedTypesAreNeverPositive ==
  \A i \in 1..Len(all_tradelines) :
    LET t == all_tradelines[i]
    IN (/\ Scored(i)
        /\ ~ConventionalOrFHA(t)
        /\ t.is_medical_or_edu \/ RulebookAuto(t) \/ RulebookSelfReported(t))
       => /\ ~t.evaluation.is_positive
          /\ i \notin Members(positive_tradelines_list)

\* the positions of the medical or educational tradelines
MedicalOrEdu == {i \in 1..Len(all_tradelines) : all_tradelines[i].is_medical_or_edu}

\* C20: a medical or educational tradeline is never marked negative: neither
\* evaluation flags it, it is in no negative list, and neither negative
\* count includes it, whatever its condition and payment status.
C20_MedicalOrEduIsNeverNegative ==
  /\ \A i \in MedicalOrEdu :
       /\ ~all_tradelines[i].evaluation.is_negative
       /\ all_tradelines[i].evaluation.status # "rejected"
       /\ all_tradelines[i].redemption_evaluation.status # "negative"
       /\ i \notin Members(negative_tradelines_list)
       /\ i \notin Members(redemption_neg_tradelines)
       /\ pc = "returned" => i \notin Members(extras[1].rejected_tradelines)
  /\ negative_count = Cardinality(Negatives \ MedicalOrEdu)
  /\ redemption_neg = Cardinality(Members(redemption_neg_tradelines) \ MedicalOrEdu)
  /\ pc \in {"grade", "returned"} =>
       redemption_result.negative_count = redemption_neg

\* C20 witness: a medical account written off and seriously past due went
\* through both evaluations (the redemption pass considered it) and the
\* result was returned.
C20_Witness ==
  /\ pc = "returned"
  /\ \E i \in MedicalOrEdu :
       /\ all_tradelines[i].account_condition = "Unpaid balance reported as loss"
       /\ all_tradelines[i].payment_status = "Seriously past due"
       /\ all_tradelines[i].evaluation.is_skipped
       /\ all_tradelines[i].redemption_evaluation.considered

\* the tenure test of the rulebook on what the block states: the months
\* reviewed when present, else the whole months between an "Open Date"
\* written MM/DD/YYYY and the report date, else unknown
RulebookTenure(t) ==
  IF t.months_reviewed # NoInt THEN t.months_reviewed >= 12
  ELSE IF Len(t.raw_text.open_date) = 3
  THEN (report_date[1] - t.raw_text.open_date[3]) * 12
         + (report_date[2] - t.raw_text.open_date[1]) >= 12
  ELSE FALSE

\* C21: a tradeline that meets every other condition of the positive test
\* is accepted exactly when its tenure suffices: months_reviewed >= 12 when
\* present, else 12 whole months between an open date written MM/DD/YYYY and
\* the report date, and never when neither is present.
C21_TenureFromMonthsOrOpenDate ==
  \A i \in 1..Len(all_tradelines) :
    LET t == all_tradelines[i]
    IN (/\ Scored(i)
        /\ is_open_and_current(t)
        /\ meets_responsibility(t)
        /\ limit_ok(t)
        /\ ~skip_for_positive(t)
        /\ t.months_reviewed # NoInt \/ Len(t.raw_text.open_date) # 2)
       => (t.evaluation.is_positive <=> RulebookTenure(t))

\* the positions of the lines that match the tradeline-start pattern
MatchingLines == {i \in 1..Len(lines) : MatchTable[lines[i]]}

\* the lines of the chunks, one chunk after the other
RECURSIVE Concatenated(_)
Concatenated(chunks) ==
  IF chunks = << >> THEN << >> ELSE Head(chunks) \o Concatenated(Tail(chunks))

\* the text from its first matching line to its end
FromFirstMatch ==
  IF MatchingLines = {} THEN << >>
  ELSE SubSeq(lines, CHOOSE i \in MatchingLines : \A k \in MatchingLines : i <= k, Len(lines))

\* C22: once the text is cut, there are as many blocks as lines matching
\* the tradeline-start pattern, every block starts with a matching line and
\* holds no other, and the blocks put one after the other are the text from
\* its first matching line to its end.
C22_BlocksPartitionTheText ==
  pc = "chunks" =>
    /\ Len(tradeline_chunks) = Cardinality(MatchingLines)
    /\ \A c \in 1..Len(tradeline_chunks) :
         /\ tradeline_chunks[c] # << >>
         /\ \A k \in 1..Len(tradeline_chunks[c]) :
              MatchTable[tradeline_chunks[c][k]] <=> k = 1
    /\ Concatenated(tradeline_chunks) = FromFirstMatch

\* the whole dollars of the first amount of a line: the digits before the
\* cents, thousands separators removed
RECURSIVE before_dot(_)
before_dot(s) ==
  IF s = << >> \/ Head(s) = "." THEN << >> ELSE <<Head(s)>> \o before_dot(Tail(s))

WholeDollars(line) == int_of(without_commas(before_dot(amount_group(Chars[line]))))

\* C23: once the label is found on adjacent lines and a dollar amount
\* follows, the extractor does not raise and returns the first following
\* amount as an integer, separators removed and cents truncated ("$500.75"
\* gives 500, "$1,250.00" gives 1250).
C23_AmountWithCentsIsTruncated ==
  (pc # "extract" /\ amount_line(lines) # 0) =>
    /\ pc = "extracted"
    /\ credit_limit_search_result = WholeDollars(lines[amount_line(lines)])
    /\ lines[amount_line(lines)] = "$500.75" => credit_limit_search_result = 500
    /\ lines[amount_line(lines)] = "$1,250.00" => credit_limit_search_result = 1250

\* C24: in every returned result the reported positive_count is the length
\* of accepted_tradelines, the reported negative_count the length of
\* rejected_tradelines, and the score is base_score plus the one minus the
\* other, also when the redemption score was adopted.
C24_ReturnedCountsMatchLists ==
  pc = "returned" =>
    /\ extras[1].positive_count = Len(extras[1].accepted_tradelines)
    /\ extras[1].negative_count = Len(extras[1].rejected_tradelines)
    /\ final_score = extras[1].base_score_start + extras[1].positive_count
                       - extras[1].negative_count

\* C25: in every returned result each tradeline of all_tradelines is in
\* accepted_tradelines, rejected_tradelines or skipped_tradelines, also when
\* the redemption score was adopted.
C25_EveryTradelineAccountedFor ==
  pc = "returned" =>
    \A i \in 1..Len(extras[1].all_tradelines) :
      \/ i \in Members(extras[1].accepted_tradelines)
      \/ i \in Members(extras[1].rejected_tradelines)
      \/ i \in Members(extras[1].skipped_tradelines)

\* a tradeline the redemption pass has re-evaluated: not excluded, within
\* three years, condition, payment status and responsibility present
Reevaluated(i) ==
  /\ all_tradelines[i].redemption_evaluation.considered
  /\ all_tradelines[i].account_condition # None
  /\ all_tradelines[i].payment_status # None
  /\ all_tradelines[i].responsibility # None

\* C26: the redemption pass agrees with the first evaluation on every
\* tradeline it re-evaluates: it counts the tradeline positive exactly when
\* the first evaluation accepted it and negative exactly when the first
\* evaluation marked it negative, so neither redemption count exceeds the
\* count of the first pass.
C26_RedemptionAgreesWithFirstEvaluation ==
  /\ \A i \in 1..Len(all_tradelines) :
       Reevaluated(i) =>
         /\ i \in Members(redemption_pos_tradelines)
              <=> all_tradelines[i].evaluation.is_positive
         /\ i \in Members(redemption_neg_tradelines)
              <=> all_tradelines[i].evaluation.is_negative
  /\ redemption_pos <= positive_count
  /\ redemption_neg <= negative_count

\* C27: on every report date, 29 February of a leap year included, the
\* two-year and three-year cutoffs are valid dates and the run does not
\* raise on them, whether the document has negative tradelines or not.
C27_CutoffsAreValidDates ==
  /\ ~(pc = "raised" /\ error = "ValueError")
  /\ three_years_ago # NoDate =>
       ValidDate(three_years_ago[1], three_years_ago[2], three_years_ago[3])
  /\ (pc \in {"cutoff", "grade", "returned"} /\ today_read # NoDate) =>
       ValidDate(today_read[1] - TwoYears, today_read[2], today_read[3])



====
